---------------------------- MODULE Spec2Model ----------------------------
(***************************************************************************)
(* generate_matrices.py: a seeded generator fills square int32 matrices,   *)
(* one per (size, label) pair, and writes each to <OUTPUT_DIR>/<label>_    *)
(* <size>.bin, printing "Saved <filepath>" after every write.              *)
(*                                                                         *)
(* The script is modelled statement by statement.  The matrix dimensions   *)
(* are scaled down (MinSize..MaxSize instead of 64..1024) and the library's *)
(* 128-bit bit generator is scaled down to a 16-bit one that keeps its     *)
(* shape: a seeded state, one raw word per step, and the bounded-integer   *)
(* reduction with rejection that Generator.integers applies to each word.  *)
(* The script is run twice in a row on the same disk, the second time      *)
(* with the sizes possibly reordered, so that two runs can be compared.    *)
(***************************************************************************)
EXTENDS Integers, Sequences, FiniteSets, TLC

(* ------------------------------ bounds -------------------------------- *)

\* Matrix dimensions are drawn from MinSize..MaxSize (the script's are
\* 64..1024), and a size list holds up to MaxSize - MinSize + 1 of them.
MinSize == 2

MaxSize == 4

(* --------------------------- configuration ---------------------------- *)

OUTPUT_DIR == "matrices"

SEED == 42

\* for matrix_label in ['A', 'B']
Labels == <<"A", "B">>

\* rng.integers(low=0, ...)
LOW == 0

\* rng.integers(..., high=10, ...): the upper bound is exclusive
HIGH == 10

\* dtype=np.int32: four bytes per element
ItemSize == 4

Range(s) == {s[k] : k \in DOMAIN s}

\* MATRIX_SIZES: an ordered list of distinct positive dimensions.
SizeLists ==
    UNION {{s \in [1..n -> MinSize..MaxSize] : \A a, b \in 1..n : a # b => s[a] # s[b]}
           : n \in 1..(MaxSize - MinSize + 1)}

\* The same dimensions in any order (the list itself included).
Reorderings(s) ==
    {t \in [DOMAIN s -> Range(s)] : Range(t) = Range(s)}

Seeds == {SEED, SEED + 1}

VARIABLES
    sizes,      \* MATRIX_SIZES of the current run
    seed,       \* SEED
    pc,         \* the statement the script is at
    size_idx,   \* position of the outer loop in sizes
    label_idx,  \* position of the inner loop in Labels
    rng,        \* the generator: [state, drawn], or NoRng before line 13
    matrix,     \* the last generated matrix, a sequence of rows
    dirKind,    \* what OUTPUT_DIR is on disk: "absent", "dir" or "file"
    files,      \* the files of OUTPUT_DIR: file name -> bytes
    stdout,     \* the lines printed by the current run
    run,        \* "first" or "second" invocation of the script
    seedings,   \* history: generators constructed by the current run
    writes,     \* history: completed writes of the current run, in order
    log,        \* history: generate / write / print events of the current run
    start,      \* history: the files of OUTPUT_DIR when the current run started
    prev        \* history: the first run, recorded when the second starts

vars == <<sizes, seed, pc, size_idx, label_idx, rng, matrix, dirKind, files,
          stdout, run, seedings, writes, log, start, prev>>

(* ---------------------------- the generator --------------------------- *)

NoRng == [state |-> -1, drawn |-> 0]

\* The state a seed initializes the bit generator to.
SeedState(s) == (s * 40503 + 12345) % 65536

\* A generator constructed without the seed differs from run to run.
default_rng_unseeded(s) ==
    [state |-> (s * 40503 + (IF run = "first" THEN 12345 ELSE 54321)) % 65536, drawn |-> 0]

\* np.random.default_rng(seed): a generator at the seed's state, nothing drawn.
default_rng(s) == [state |-> SeedState(s), drawn |-> 0]

\* One step of the bit generator: the next state, which is the raw word.
NextWord(st) == (25173 * st + 13849) % 65536

\* One bounded integer in [0, span): multiply, and reject the words whose
\* low half falls under the threshold; the result is the high half.
RECURSIVE Bounded(_, _)
Bounded(st, span) ==
    LET w == NextWord(st)
        m == w * span
        threshold == (65535 - (span - 1)) % span
    IN  IF (m % 65536) < span /\ (m % 65536) < threshold
        THEN Bounded(w, span)
        ELSE [value |-> m \div 65536, state |-> w]

\* n bounded integers in [low, high), in draw order, and the state after them.
RECURSIVE Fill(_, _, _, _)
Fill(st, low, high, n) ==
    IF n = 0 THEN [values |-> <<>>, state |-> st]
    ELSE LET d == Bounded(st, high - low)
             rest == Fill(d.state, low, high, n - 1)
         IN  [values |-> <<low + d.value>> \o rest.values, state |-> rest.state]

\* rng.integers(low, high, size=(size, size)): the block is filled row by row.
Integers(g, low, high, size) ==
    LET f == Fill(g.state, low, high, size * size)
    IN  [matrix |-> [r \in 1..size |-> [c \in 1..size |-> f.values[(r - 1) * size + c]]],
         rng |-> [state |-> f.state, drawn |-> g.drawn + size * size]]

DrawLow == LOW

DrawHighInclusive == HIGH + 1

DrawHigh == HIGH

(* ------------------------------ the files ----------------------------- *)

FileNameNoLabel(label, size) == [stem |-> "M", size |-> size, ext |-> "bin"]

\* filename = f'{matrix_label}_{size}.bin'
FileName(label, size) == [stem |-> label, size |-> size, ext |-> "bin"]

\* filepath = os.path.join(OUTPUT_DIR, filename)
FilePathNoDir(name) == <<name>>

FilePath(name) == <<OUTPUT_DIR, name>>

\* Byte b (0 the lowest) of a 32-bit integer in two's complement.
RECURSIVE Pow256(_)
Pow256(b) == IF b = 0 THEN 1 ELSE 256 * Pow256(b - 1)

ByteOf(x, b) == (x \div Pow256(b)) % 256

\* The matrix's elements in row-major order.
Flatten(m) ==
    [k \in 1..(Len(m) * Len(m)) |-> m[((k - 1) \div Len(m)) + 1][((k - 1) % Len(m)) + 1]]

ToBytesWithHeader(m) ==
    LET flat == Flatten(m)
    IN  <<Len(m), Len(m)>> \o
        [k \in 1..(Len(flat) * ItemSize) |->
            ByteOf(flat[((k - 1) \div ItemSize) + 1], (k - 1) % ItemSize)]

\* matrix.tofile: the raw elements, row-major, ItemSize bytes each, nothing else.
ToBytes(m) ==
    LET flat == Flatten(m)
    IN  [k \in 1..(Len(flat) * ItemSize) |->
            ByteOf(flat[((k - 1) \div ItemSize) + 1], (k - 1) % ItemSize)]

WrittenAppend(old, name, bytes) ==
    IF name \in DOMAIN old THEN (name :> (old[name] \o bytes)) @@ old
    ELSE (name :> bytes) @@ old

\* tofile opens the path for writing: what was there is replaced.
Written(old, name, bytes) == (name :> bytes) @@ old

Prefix(s, k) == [x \in 1..k |-> s[x]]

\* What a failed tofile can leave: the disk as it was (the open failed), or
\* the file cut to the items that reached the disk before the error.
FailedWrites(old, name, bytes) ==
    {old} \cup {(name :> Prefix(bytes, k * ItemSize)) @@ old
                  : k \in 0..((Len(bytes) \div ItemSize) - 1)}

MakedirsNoExistOk(kind) ==
    CASE kind = "dir"    -> {"error"}
      [] kind = "absent" -> {"created", "error"}
      [] kind = "file"   -> {"error"}

\* os.makedirs(OUTPUT_DIR, exist_ok=True) by what the path is.
MakedirsOutcomes(kind) ==
    CASE kind = "dir"    -> {"ok"}
      [] kind = "absent" -> {"created", "error"}
      [] kind = "file"   -> {"error"}

OnOSErrorSwallowed == "print"

\* No statement of the script catches an OSError: the run ends there.
OnOSError == "failed"

(* ------------------------------ the loops ----------------------------- *)

LoopNextLabelsOuter(i, j, n) ==
    IF i < n THEN [size_idx |-> i + 1, label_idx |-> j, over |-> FALSE]
    ELSE [size_idx |-> 1, label_idx |-> j + 1, over |-> j + 1 > Len(Labels)]

\* for size in MATRIX_SIZES: for matrix_label in ['A', 'B']: the position
\* after (i, j), and whether the loops are over.
LoopNext(i, j, n) ==
    IF j < Len(Labels) THEN [size_idx |-> i, label_idx |-> j + 1, over |-> FALSE]
    ELSE [size_idx |-> i + 1, label_idx |-> 1, over |-> i + 1 > n]

CurSize == sizes[size_idx]

CurLabel == Labels[label_idx]

(* ------------------------------- states ------------------------------- *)

EmptyDir == <<>>

\* A directory left by an earlier, different configuration: a file with the
\* name of one this run writes, and one this run never names.
StaleDir ==
    (FileName("A", MinSize) :> <<7, 0, 0, 0, 7>>) @@ (FileName("C", MaxSize + 1) :> <<1, 2>>)

InitialDisks ==
    {[dirKind |-> "absent", files |-> EmptyDir],
     [dirKind |-> "file", files |-> EmptyDir],
     [dirKind |-> "dir", files |-> EmptyDir],
     [dirKind |-> "dir", files |-> StaleDir]}

NoRun == [sizes |-> <<>>, writes |-> <<>>, files |-> EmptyDir]

Init ==
    /\ sizes \in SizeLists
    /\ seed \in Seeds
    /\ \E d \in InitialDisks :
        /\ dirKind = d.dirKind
        /\ files = d.files
        /\ start = d.files
    /\ pc = "makedirs"
    /\ size_idx = 1
    /\ label_idx = 1
    /\ rng = NoRng
    /\ matrix = <<>>
    /\ stdout = <<>>
    /\ run = "first"
    /\ seedings = 0
    /\ writes = <<>>
    /\ log = <<>>
    /\ prev = NoRun

(* ------------------------------ actions ------------------------------- *)

\* line 10, the directory exists afterwards
Makedirs ==
    /\ pc = "makedirs"
    /\ \E o \in MakedirsOutcomes(dirKind) \ {"error"} :
        /\ dirKind' = "dir"
        /\ files' = IF o = "created" THEN EmptyDir ELSE files
    /\ pc' = "default_rng"
    /\ UNCHANGED <<sizes, seed, size_idx, label_idx, rng, matrix, stdout, run,
                   seedings, writes, log, start, prev>>

\* line 10 raises OSError
MakedirsFail ==
    /\ pc = "makedirs"
    /\ "error" \in MakedirsOutcomes(dirKind)
    /\ pc' = OnOSError
    /\ UNCHANGED <<sizes, seed, size_idx, label_idx, rng, matrix, dirKind, files,
                   stdout, run, seedings, writes, log, start, prev>>

\* line 13, then the loops are entered (lines 15-16)
DefaultRng ==
    /\ pc = "default_rng"
    /\ rng' = default_rng(seed)
    /\ seedings' = seedings + 1
    /\ size_idx' = 1
    /\ label_idx' = 1
    /\ pc' = "generate"
    /\ UNCHANGED <<sizes, seed, matrix, dirKind, files, stdout, run, writes, log,
                   start, prev>>

DrawFromFresh == default_rng(seed)

\* The generator a draw is made from: the one of line 13.
DrawFrom == rng

\* line 18
Generate ==
    /\ pc = "generate"
    /\ LET d == Integers(DrawFrom, DrawLow, DrawHigh, CurSize)
       IN  /\ matrix' = d.matrix
           /\ rng' = d.rng
    /\ log' = Append(log, [op |-> "generate", label |-> CurLabel, size |-> CurSize])
    /\ pc' = "tofile"
    /\ UNCHANGED <<sizes, seed, size_idx, label_idx, dirKind, files, stdout, run,
                   seedings, writes, start, prev>>

\* lines 21-25, the write completes
ToFile ==
    /\ pc = "tofile"
    /\ dirKind = "dir"
    /\ LET name == FileName(CurLabel, CurSize)
           bytes == ToBytes(matrix)
       IN  /\ files' = Written(files, name, bytes)
           /\ writes' = Append(writes, [path |-> FilePath(name), label |-> CurLabel,
                                         size |-> CurSize, bytes |-> bytes])
    /\ log' = Append(log, [op |-> "write", label |-> CurLabel, size |-> CurSize])
    /\ pc' = "print"
    /\ UNCHANGED <<sizes, seed, size_idx, label_idx, rng, matrix, dirKind, stdout,
                   run, seedings, start, prev>>

\* lines 21-25, tofile raises OSError
ToFileFail ==
    /\ pc = "tofile"
    /\ files' \in FailedWrites(files, FileName(CurLabel, CurSize), ToBytes(matrix))
    /\ pc' = OnOSError
    /\ UNCHANGED <<sizes, seed, size_idx, label_idx, rng, matrix, dirKind, stdout,
                   run, seedings, writes, log, start, prev>>

\* line 27, then the loops advance (lines 15-16)
PrintSaved ==
    /\ pc = "print"
    /\ stdout' = Append(stdout, <<"Saved", FilePath(FileName(CurLabel, CurSize))>>)
    /\ log' = Append(log, [op |-> "print", label |-> CurLabel, size |-> CurSize])
    /\ LET nx == LoopNext(size_idx, label_idx, Len(sizes))
       IN  /\ size_idx' = nx.size_idx
           /\ label_idx' = nx.label_idx
           /\ pc' = IF nx.over THEN "done" ELSE "generate"
    /\ UNCHANGED <<sizes, seed, rng, matrix, dirKind, files, run, seedings, writes,
                   start, prev>>

\* The script is started again after a complete run, on the disk the first
\* run left, with the same seed and the same sizes in some order.
Rerun ==
    /\ pc = "done"
    /\ run = "first"
    /\ run' = "second"
    /\ sizes' \in Reorderings(sizes)
    /\ prev' = [sizes |-> sizes, writes |-> writes, files |-> files]
    /\ start' = files
    /\ pc' = "makedirs"
    /\ size_idx' = 1
    /\ label_idx' = 1
    /\ rng' = NoRng
    /\ matrix' = <<>>
    /\ stdout' = <<>>
    /\ seedings' = 0
    /\ writes' = <<>>
    /\ log' = <<>>
    /\ UNCHANGED <<seed, dirKind, files>>

Next ==
    \/ Makedirs
    \/ MakedirsFail
    \/ DefaultRng
    \/ Generate
    \/ ToFile
    \/ ToFileFail
    \/ PrintSaved
    \/ Rerun

Spec == Init /\ [][Next]_vars

(* ------------------------- reading a file back ------------------------ *)

\* The 32-bit signed integers a byte string decodes to, ItemSize bytes each.
FromBytes(bytes) ==
    [e \in 1..(Len(bytes) \div ItemSize) |->
        LET b == [x \in 0..(ItemSize - 1) |-> bytes[(e - 1) * ItemSize + x + 1]]
            top == IF b[ItemSize - 1] >= 128 THEN b[ItemSize - 1] - 256 ELSE b[ItemSize - 1]
        IN  b[0] + 256 * b[1] + 65536 * b[2] + 16777216 * top]

\* A flat sequence cut into rows of n elements.
Grid(flat, n) == [r \in 1..n |-> [c \in 1..n |-> flat[(r - 1) * n + c]]]

\* The (size, label) pair of the k-th iteration: sizes outer, labels inner.
PairSize(ss, k) == ss[((k - 1) \div Len(Labels)) + 1]

PairLabel(k) == Labels[((k - 1) % Len(Labels)) + 1]

\* The number of integers drawn by the iterations before the k-th.
RECURSIVE Offset(_, _)
Offset(ss, k) ==
    IF k <= 1 THEN 0
    ELSE Offset(ss, k - 1) + PairSize(ss, k - 1) * PairSize(ss, k - 1)

\* The next n integers of the stream of a generator in state st, computed
\* eight at a time.
RECURSIVE StreamFrom(_, _)
StreamFrom(st, n) ==
    IF n <= 8 THEN Fill(st, LOW, HIGH, n).values
    ELSE LET a == Fill(st, LOW, HIGH, 8)
         IN  a.values \o StreamFrom(a.state, n - 8)

\* The first n integers of the stream of a generator seeded with s.
Stream(s, n) == StreamFrom(SeedState(s), n)

\* The files the current run's configuration names.
Targets == {FileName(Labels[j], sizes[i]) : i \in DOMAIN sizes, j \in DOMAIN Labels}

\* The position at which two size lists of one length first differ.
FirstDiff(a, b) ==
    IF a = b THEN Len(a) + 1
    ELSE CHOOSE p \in DOMAIN a :
            /\ a[p] # b[p]
            /\ \A q \in 1..(p - 1) : a[q] = b[q]

SameRerun == run = "second" /\ prev.sizes = sizes

(* ------------------------------- claims ------------------------------- *)

\* C1: two complete runs with the same seed and the same ordered sizes write
\* byte-identical content for the file of every (label, size) pair.
C1_Determinism ==
    SameRerun =>
        \A k \in DOMAIN writes : \A h \in DOMAIN prev.writes :
            (writes[k].label = prev.writes[h].label /\ writes[k].size = prev.writes[h].size)
                => writes[k].bytes = prev.writes[h].bytes

C1_Witness ==
    /\ SameRerun
    /\ pc = "done"
    /\ Len(sizes) >= 2
    /\ Len(writes) = Len(prev.writes)

\* C2: after a run without a filesystem error every {label}_{size}.bin of the
\* configuration is in the output directory, the run made exactly one write
\* per (size, label) pair, and no two writes of a run target the same path.
C2_OneFilePerPair ==
    /\ \A k, h \in DOMAIN writes : k # h => writes[k].path # writes[h].path
    /\ pc = "done" =>
        /\ dirKind = "dir"
        /\ Targets \subseteq DOMAIN files
        /\ Len(writes) = Len(sizes) * Len(Labels)
        /\ \A i \in DOMAIN sizes : \A j \in DOMAIN Labels :
              Cardinality({k \in DOMAIN writes :
                  writes[k].path = <<OUTPUT_DIR, [stem |-> Labels[j], size |-> sizes[i],
                                                   ext |-> "bin"]>>}) = 1

C2_Witness ==
    /\ pc = "done"
    /\ Len(sizes) = MaxSize - MinSize + 1
    /\ Len(writes) = Len(Labels) * (MaxSize - MinSize + 1)

\* C3: every file whose write completed holds exactly size*size 32-bit
\* integers, the size x size grid in row-major order and nothing else, so its
\* length is size*size*4 bytes.
C3_ShapeAndLength ==
    /\ \A k \in DOMAIN writes :
          LET onDisk == files[FileName(writes[k].label, writes[k].size)]
          IN  /\ onDisk = writes[k].bytes
              /\ Len(onDisk) = writes[k].size * writes[k].size * 4
              /\ Len(FromBytes(onDisk)) = writes[k].size * writes[k].size
    /\ pc = "print" =>
          LET onDisk == files[FileName(CurLabel, CurSize)]
          IN  /\ Len(matrix) = CurSize
              /\ \A r \in 1..CurSize : Len(matrix[r]) = CurSize
              /\ Grid(FromBytes(onDisk), CurSize) = matrix

C3_Witness ==
    /\ pc = "print"
    /\ CurSize = MaxSize
    /\ Len(files[FileName(CurLabel, CurSize)]) = MaxSize * MaxSize * 4

\* C4: every element of every generated matrix, and every integer decoded
\* from a written file, lies in 0..9.
C4_Range ==
    /\ \A r \in DOMAIN matrix : \A c \in DOMAIN matrix[r] : matrix[r][c] \in 0..9
    /\ \A k \in DOMAIN writes :
          LET ints == FromBytes(files[FileName(writes[k].label, writes[k].size)])
          IN  \A e \in DOMAIN ints : ints[e] \in 0..9

C4_Witness ==
    /\ pc = "done"
    /\ \E k \in DOMAIN writes :
          LET ints == FromBytes(files[FileName(writes[k].label, writes[k].size)])
          IN  /\ \E e \in DOMAIN ints : ints[e] = 9
              /\ \E e \in DOMAIN ints : ints[e] = 0

\* C5: a filesystem error in makedirs or in a write ends the run at once:
\* nothing runs after it, the failing step prints no line, completes no write
\* and draws nothing, it is not retried, and the files written by earlier
\* iterations stay as they were.
C5_AbortOnError ==
    [][
        /\ pc # "failed"
        /\ (pc = "makedirs" /\ pc' # "default_rng") => pc' = "failed"
        /\ (pc = "tofile" /\ writes' = writes) => pc' = "failed"
        /\ pc' = "failed" =>
            /\ stdout' = stdout
            /\ writes' = writes
            /\ log' = log
            /\ rng' = rng
            /\ size_idx' = size_idx
            /\ label_idx' = label_idx
            /\ \A k \in DOMAIN writes :
                  LET name == FileName(writes[k].label, writes[k].size)
                  IN  name \in DOMAIN files' /\ files'[name] = writes[k].bytes
            /\ \A name \in DOMAIN files :
                  (pc = "makedirs" \/ name # FileName(CurLabel, CurSize))
                      => (name \in DOMAIN files' /\ files'[name] = files[name])
    ]_vars

C5_Witness ==
    /\ pc = "failed"
    /\ Len(writes) >= 1
    /\ FileName(CurLabel, CurSize) \in DOMAIN files
    /\ Len(files[FileName(CurLabel, CurSize)]) < CurSize * CurSize * 4

\* C6: matrices are generated and written in a strict order, sizes in the
\* configured order outside and labels A then B inside: each matrix is
\* generated, written and reported before the next is generated.
C6_Order ==
    /\ \A k \in DOMAIN writes :
          /\ writes[k].size = PairSize(sizes, k)
          /\ writes[k].label = PairLabel(k)
    /\ \A e \in DOMAIN log :
          /\ log[e].op = <<"generate", "write", "print">>[((e - 1) % 3) + 1]
          /\ log[e].size = PairSize(sizes, ((e - 1) \div 3) + 1)
          /\ log[e].label = PairLabel(((e - 1) \div 3) + 1)
    /\ Len(writes) = Cardinality({e \in DOMAIN log : log[e].op = "write"})

C6_Witness ==
    /\ pc = "done"
    /\ Len(sizes) >= 2
    /\ sizes[1] > sizes[2]

\* C7 as stated: at every point there are as many printed lines as completed
\* writes, line k being 'Saved <output_dir>/<label>_<size>.bin' of write k.
C7_Original ==
    /\ Len(stdout) = Len(writes)
    /\ \A k \in DOMAIN stdout :
          stdout[k] = <<"Saved", <<OUTPUT_DIR, [stem |-> writes[k].label,
                                                size |-> writes[k].size, ext |-> "bin"]>>>>

\* C7 amended: line k is 'Saved <output_dir>/<label>_<size>.bin' of write k;
\* a line is printed right after its write and before the next matrix is
\* generated; the lines are as many as the completed writes, except between a
\* write and its own line, where they are one fewer.
C7_SavedLines ==
    /\ Len(stdout) = Len(writes) - (IF pc = "print" THEN 1 ELSE 0)
    /\ \A k \in DOMAIN stdout :
          /\ stdout[k] = <<"Saved", <<OUTPUT_DIR, [stem |-> writes[k].label,
                                                   size |-> writes[k].size, ext |-> "bin"]>>>>
          /\ stdout[k] = <<"Saved", writes[k].path>>
    /\ Len(stdout) = Cardinality({e \in DOMAIN log : log[e].op = "print"})
    /\ \A e \in DOMAIN log :
          /\ log[e].op = "print" =>
                /\ e > 1
                /\ log[e - 1] = [log[e] EXCEPT !.op = "write"]
          /\ (log[e].op = "generate" /\ e > 1) => log[e - 1].op = "print"

C7_Witness ==
    /\ pc = "print"
    /\ Len(writes) = 2
    /\ Len(stdout) = 1

\* C8: a second run with the same configuration leaves the output directory
\* with the files and contents the first run left; it overwrites each
\* {label}_{size}.bin and neither removes nor changes any other file.
C8_IdempotentOverwrite ==
    /\ (SameRerun /\ pc = "done") => (files = prev.files /\ dirKind = "dir")
    /\ dirKind = "dir" =>
          \A name \in DOMAIN start \ Targets :
              name \in DOMAIN files /\ files[name] = start[name]
    /\ (SameRerun /\ dirKind = "dir") => DOMAIN files = DOMAIN prev.files

C8_Witness ==
    /\ SameRerun
    /\ pc = "done"
    /\ FileName("C", MaxSize + 1) \in DOMAIN files
    /\ FileName("A", MinSize) \in Targets
    /\ prev.files[FileName("A", MinSize)] # StaleDir[FileName("A", MinSize)]

C9_Ensured ==
    /\ pc \notin {"makedirs", "failed"} => dirKind = "dir"
    /\ pc = "makedirs" => (rng = NoRng /\ seedings = 0 /\ writes = <<>> /\ log = <<>>)
    /\ (rng # NoRng \/ log # <<>>) => dirKind = "dir"

\* C9: the output directory is ensured before the generator is constructed
\* and before anything is generated or written; an existing directory is not
\* an error and keeps its contents; no file is written while it is missing.
C9_DirectoryFirst ==
    /\ C9_Ensured
    /\ [][
          /\ C9_Ensured'
          /\ (pc = "makedirs" /\ dirKind = "dir")
                => (pc' = "default_rng" /\ dirKind' = "dir" /\ files' = files)
          /\ (pc = "makedirs" /\ dirKind = "absent" /\ pc' # "failed")
                => (pc' = "default_rng" /\ dirKind' = "dir")
          /\ files' # files => dirKind = "dir"
       ]_vars

C9_Witness ==
    /\ pc = "generate"
    /\ run = "first"
    /\ start = StaleDir
    /\ files = start

\* C10 as stated: one generator, consecutive segments of one stream, and a
\* change of the order of the sizes changes every file generated from the
\* first changed position on and no file generated before it.
C10_Original ==
    (run = "second" /\ pc = "done" /\ prev.sizes # sizes) =>
        \A k \in DOMAIN writes : \A h \in DOMAIN prev.writes :
            (writes[k].label = prev.writes[h].label /\ writes[k].size = prev.writes[h].size)
                => ((PairSize(sizes, k) \in {sizes[q] : q \in 1..(FirstDiff(prev.sizes, sizes) - 1)})
                        <=> writes[k].bytes = prev.writes[h].bytes)

\* C10 amended: one generator is constructed per run and every draw advances
\* it; the file of the k-th pair holds the stream's integers from the number
\* drawn by the pairs before it on; after a change of the order of the sizes
\* a file is unchanged when as many integers are drawn before it as before
\* (so every file generated before the first changed position is), and is
\* otherwise taken from another segment of the stream.
C10_StreamSegments ==
    /\ seedings <= 1
    /\ (rng = NoRng) <=> (seedings = 0)
    /\ rng.drawn = Offset(sizes, Cardinality({e \in DOMAIN log : log[e].op = "generate"}) + 1)
    /\ \A k \in DOMAIN writes :
          LET n == writes[k].size * writes[k].size
              off == Offset(sizes, k)
          IN  FromBytes(writes[k].bytes) = SubSeq(Stream(seed, off + n), off + 1, off + n)
    /\ run = "second" =>
          \A k \in DOMAIN writes : \A h \in DOMAIN prev.writes :
              (/\ writes[k].label = prev.writes[h].label
               /\ writes[k].size = prev.writes[h].size
               /\ (\/ Offset(sizes, k) = Offset(prev.sizes, h)
                   \/ ((k - 1) \div Len(Labels)) + 1 < FirstDiff(prev.sizes, sizes)))
                  => (writes[k].bytes = prev.writes[h].bytes /\ Offset(sizes, k) = Offset(prev.sizes, h))

C10_Witness ==
    /\ run = "second"
    /\ pc = "done"
    /\ sizes # prev.sizes
    /\ FirstDiff(prev.sizes, sizes) = 1
    /\ \E k \in DOMAIN writes :
          /\ k > Len(Labels)
          /\ Offset(sizes, k) = Offset(prev.sizes, k)
          /\ writes[k] = prev.writes[k]

=============================================================================
